---- MODULE Spec2Model ----
(***************************************************************************)
(* PDF auto renamer: the two pipeline variants of the repository.          *)
(*   variant "A" = src/src/pdf_renamer_gui.py (propose_new_name, on_scan,  *)
(*                 on_rename)                                              *)
(*   variant "B" = src/pdf_renamer_gui.py (guess_company, guess_desc,      *)
(*                 scan, rename)                                           *)
(* A Python str is a sequence of one-character strings.  The inputs are    *)
(* ASCII, so isalpha / isdigit / upper are the ASCII ones.                 *)
(***************************************************************************)
EXTENDS Integers, Sequences, FiniteSets, TLC

VARIABLES
  doc,            \* pipeline: the document behind pdf_path (what fitz / tesseract do with it)
  fname,          \* pipeline: os.path.basename(pdf_path), a str
  variant,        \* which program ran: "none", "A" or "B"
  calls,          \* pipeline: the acquisition calls made for the document, in order
  text,           \* pipeline: the text the name was derived from
  company,        \* pipeline: company before truncation (A) / guess_company(text) (B)
  descLine,       \* pipeline: the description line before truncation
  desc,           \* pipeline: the description used in the name
  proposed,       \* pipeline: the proposed file name
  raised,         \* pipeline: an exception escaped to the caller
  openHandles,    \* pipeline: documents opened by fitz.open and not closed at return
  fs,             \* app: the file system, a set of [dir, name, doc]
  folder,         \* app: folder_var (A) / self.folder (B)
  selected_files, \* app A: self.selected_files
  rows,           \* app: the table rows, each [path, original, new]
  pass            \* app: what the last rename pass did, row by row

vars == <<doc, fname, variant, calls, text, company, descLine, desc, proposed,
          raised, openHandles, fs, folder, selected_files, rows, pass>>

pipeVars == <<doc, fname, calls, text, company, descLine, desc, proposed,
              raised, openHandles>>
appVars == <<fs, folder, selected_files, rows, pass>>

----------------------------------------------------------------------------
(* Characters *)

Lower == <<"a","b","c","d","e","f","g","h","i","j","k","l","m",
           "n","o","p","q","r","s","t","u","v","w","x","y","z">>
Upper == <<"A","B","C","D","E","F","G","H","I","J","K","L","M",
           "N","O","P","Q","R","S","T","U","V","W","X","Y","Z">>
LowerSet == {Lower[i] : i \in 1..26}
UpperSet == {Upper[i] : i \in 1..26}
AlphaSet == LowerSet \cup UpperSet
DigitSet == {"0","1","2","3","4","5","6","7","8","9"}
\* the control characters of codes 9..13 (\t, \n, \v, \f, \r) and of codes
\* 28..31 (the file, group, record and unit separators), in code order; the
\* ones that have no escape are written as the characters themselves
Ctrl == <<"\t", "\n", "", "\f", "\r">>
Seps == <<"", "", "", "">>
\* \s of re and the characters str.strip() removes, among the ASCII characters
WS == {" "} \cup {Ctrl[i] : i \in 1..5} \cup {Seps[i] : i \in 1..4}
\* the ASCII characters at which str.splitlines() ends a line: \n, \v, \f,
\* \r and the codes 28..30 (the unit separator, code 31, is not one)
LineBreaks == {Ctrl[i] : i \in 2..5} \cup {Seps[i] : i \in 1..3}
\* the class [\\/:*?"<>|] of safe_filename and clean
Reserved == {"\\", "/", ":", "*", "?", "\"", "<", ">", "|"}

\* str.isalpha / str.isdigit / str.upper on one character
IsAlpha(ch) == ch \in AlphaSet
IsDigit(ch) == ch \in DigitSet
UpperOf == [ch \in LowerSet |-> Upper[CHOOSE i \in 1..26 : Lower[i] = ch]]
ToUpper(ch) == IF ch \in LowerSet THEN UpperOf[ch] ELSE ch
LowerOf == [ch \in UpperSet |-> Lower[CHOOSE i \in 1..26 : Upper[i] = ch]]
ToLower(ch) == IF ch \in UpperSet THEN LowerOf[ch] ELSE ch

\* the printable ASCII characters in code order, from the space (code 32);
\* "grave" holds the place of code 96, which no input holds
Ascii == <<" ","!","\"","#","$","%","&","'","(",")","*","+",",","-",".","/",
           "0","1","2","3","4","5","6","7","8","9",":",";","<","=",">","?",
           "@","A","B","C","D","E","F","G","H","I","J","K","L","M","N","O",
           "P","Q","R","S","T","U","V","W","X","Y","Z","[","\\","]","^","_",
           "grave","a","b","c","d","e","f","g","h","i","j","k","l","m","n","o",
           "p","q","r","s","t","u","v","w","x","y","z","{","|","}","~">>
\* ord(ch)
Ord(ch) ==
  IF \E i \in 1..5 : Ctrl[i] = ch THEN 8 + CHOOSE i \in 1..5 : Ctrl[i] = ch
  ELSE IF \E i \in 1..4 : Seps[i] = ch THEN 27 + CHOOSE i \in 1..4 : Seps[i] = ch
  ELSE 31 + CHOOSE i \in 1..Len(Ascii) : Ascii[i] = ch

----------------------------------------------------------------------------
(* Python str operations *)

Min2(a, b) == IF a < b THEN a ELSE b

\* s[:n]
Take(s, n) == SubSeq(s, 1, Min2(n, Len(s)))

\* how many characters at the start / at the end of s are in S, and how
\* many at the end of s are not in S
LeadIn(s, S) ==
  Cardinality({i \in 1..Len(s) : \A j \in 1..i : s[j] \in S})
TrailIn(s, S) ==
  Cardinality({i \in 1..Len(s) : \A j \in i..Len(s) : s[j] \in S})
TrailNotIn(s, S) ==
  Cardinality({i \in 1..Len(s) : \A j \in i..Len(s) : s[j] \notin S})

\* str.strip()
Strip(s) ==
  LET lead == LeadIn(s, WS)
  IN IF lead = Len(s) THEN <<>>
     ELSE SubSeq(s, lead + 1, Len(s) - TrailIn(s, WS))

\* str.upper() and str.lower()
UpperStr(s) == [i \in 1..Len(s) |-> ToUpper(s[i])]
LowerStr(s) == [i \in 1..Len(s) |-> ToLower(s[i])]

\* s.endswith(e)
EndsWith(s, e) ==
  Len(e) <= Len(s) /\ \A i \in 1..Len(e) : s[Len(s) - Len(e) + i] = e[i]

\* a < b on str: by the first character that differs, a prefix first
StrLess(a, b) ==
  \/ Len(a) < Len(b) /\ \A i \in 1..Len(a) : a[i] = b[i]
  \/ \E i \in 1..Min2(Len(a), Len(b)) :
       /\ \A j \in 1..(i - 1) : a[j] = b[j]
       /\ Ord(a[i]) < Ord(b[i])

\* re.sub(r"\s+", " ", s): every run of whitespace becomes one space
CollapseWs(s) ==
  LET mark == [i \in 1..Len(s) |->
                 IF s[i] \in WS
                 THEN (IF i > 1 /\ s[i-1] \in WS THEN "drop" ELSE " ")
                 ELSE s[i]]
  IN SelectSeq(mark, LAMBDA c : c # "drop")

\* str.splitlines(): split at every character of LineBreaks, \r\n being one
\* break; no empty last line
SplitLines(s) ==
  LET n == Len(s)
      \* where a line starts: at 1 and after every line break
      IsStart(i) == \/ i = 1
                    \/ s[i-1] \in LineBreaks \ {"\r"}
                    \/ s[i-1] = "\r" /\ s[i] # "\n"
      \* where a line break starts (the \n of \r\n does not start one)
      IsBreak(i) == /\ s[i] \in LineBreaks
                    /\ ~(s[i] = "\n" /\ i > 1 /\ s[i-1] = "\r")
      starts == SelectSeq([i \in 1..n |-> IF IsStart(i) THEN i ELSE 0],
                          LAMBDA v : v > 0)
      breaks == SelectSeq([i \in 1..n |-> IF IsBreak(i) THEN i ELSE 0],
                          LAMBDA v : v > 0)
  IN [k \in 1..Len(starts) |->
        SubSeq(s, starts[k], IF k <= Len(breaks) THEN breaks[k] - 1 ELSE n)]

\* sep.join(parts)
RECURSIVE Join(_, _)
Join(parts, sep) ==
  IF parts = <<>> THEN <<>>
  ELSE IF Len(parts) = 1 THEN parts[1]
  ELSE parts[1] \o sep \o Join(Tail(parts), sep)

\* k in s
Contains(s, k) ==
  \E i \in 1..(Len(s) - Len(k) + 1) : \A j \in 1..Len(k) : s[i + j - 1] = k[j]

----------------------------------------------------------------------------
(* Documents.  A document says what PyMuPDF and Tesseract do with the file: *)
(*   opens  - fitz.open succeeds                                           *)
(*   pages  - one record per page:                                         *)
(*     loads   - doc.load_page(i) and page.get_text() succeed               *)
(*     txt     - what page.get_text() returns                              *)
(*     renders - get_pixmap and Image.frombytes succeed                    *)
(*     recog   - pytesseract.image_to_string succeeds                      *)
(*     ocr     - what image_to_string returns                              *)

NoFile == [opens |-> FALSE, pages |-> <<>>]

\* the outcome of a call: the value returned, whether a failure happened
\* inside, whether an exception escaped, handles opened and not closed
Outcome(ret, failed, exc, leaked) ==
  [ret |-> ret, failed |-> failed, exc |-> exc, leaked |-> leaked]

CatchNothing(r) == r

\* except Exception: return ""   /   except: return ""
CatchAll(r) ==
  IF r.exc THEN Outcome(<<>>, TRUE, FALSE, r.leaked) ELSE r

\* the page loop of both readers: the pages read before the first failure,
\* and whether a page failed
PagesToRead(d, max_pages) == Min2(Len(d.pages), max_pages)
DirectFails(d, n) == \E i \in 1..n : ~d.pages[i].loads
OcrFails(d, n) ==
  \E i \in 1..n : ~(d.pages[i].loads /\ d.pages[i].renders /\ d.pages[i].recog)

NonBlank(t) == Strip(t) # <<>>

----------------------------------------------------------------------------
(* Variant A: src/src/pdf_renamer_gui.py *)

SafeFilenameNoSub(name) == CollapseWs(Strip(name))

safe_filename(name) ==
  LET stripped == Strip(name)
      subbed == [i \in 1..Len(stripped) |->
                   IF stripped[i] \in Reserved THEN "-" ELSE stripped[i]]
  IN CollapseWs(subbed)

extract_text_from_pdf(d, max_pages) ==
  LET n == PagesToRead(d, max_pages)
      chunks == SelectSeq([i \in 1..n |-> d.pages[i].txt], NonBlank)
      body ==
        IF ~d.opens THEN Outcome(<<>>, TRUE, TRUE, 0)
        ELSE IF DirectFails(d, n) THEN Outcome(<<>>, TRUE, TRUE, 1)
        ELSE Outcome(Strip(Join(chunks, <<"\n">>)), FALSE, FALSE, 0)
  IN CatchAll(body)

ocr_first_pages(d, max_pages) ==
  LET n == PagesToRead(d, max_pages)
      ocr_text == SelectSeq([i \in 1..n |-> d.pages[i].ocr], NonBlank)
      body ==
        IF ~d.opens THEN Outcome(<<>>, TRUE, TRUE, 0)
        ELSE IF OcrFails(d, n) THEN Outcome(<<>>, TRUE, TRUE, 1)
        ELSE Outcome(Strip(Join(ocr_text, <<"\n">>)), FALSE, FALSE, 0)
  IN CatchAll(body)

\* os.path.splitext(name)[0]: cut at the last dot, unless only dots precede it
SplitextRoot(name) ==
  LET tail == TrailNotIn(name, {"."})
      dot == Len(name) - tail
  IN IF dot >= 1 /\ \E j \in 1..(dot - 1) : name[j] # "."
     THEN SubSeq(name, 1, dot - 1)
     ELSE name

CountAlpha(ln) == Len(SelectSeq(ln, IsAlpha))
CountDigit(ln) == Len(SelectSeq(ln, IsDigit))

COMPANY_WINDOW == 30
DESC_WINDOW == 60
MIN_LINE_LEN == 3
MIN_COMPANY_LETTERS == 6
MIN_DESC_LINE_LEN == 6
COMPANY_CUT == 60
DESC_CUT == 80
DotPdf == <<".", "p", "d", "f">>

NeedOcrAWhenShort(t) == Len(t) < 50

\* if not text:
NeedOcrA(t) == t = <<>>

\* lines = [ln.strip() ...]; lines = [ln for ln in lines if len(ln) >= 3]
RetainedLines(t) ==
  LET raw == SplitLines(t)
      stripped == [i \in 1..Len(raw) |-> Strip(raw[i])]
  IN SelectSeq(stripped, LAMBDA ln : ln # <<>> /\ Len(ln) >= MIN_LINE_LEN)

CompanyLineNotMoreDigits(lines) ==
  LET ok == SelectSeq(Take(lines, COMPANY_WINDOW),
                      LAMBDA ln : /\ CountAlpha(ln) >= MIN_COMPANY_LETTERS
                                  /\ CountAlpha(ln) >= CountDigit(ln))
  IN IF ok = <<>> THEN <<>> ELSE Head(ok)

\* the company loop
CompanyLine(lines) ==
  LET ok == SelectSeq(Take(lines, COMPANY_WINDOW),
                      LAMBDA ln : /\ CountAlpha(ln) >= MIN_COMPANY_LETTERS
                                  /\ CountAlpha(ln) > CountDigit(ln))
  IN IF ok = <<>> THEN <<>> ELSE Head(ok)

DescriptionLineKeepCompany(lines, co) ==
  LET ok == SelectSeq(Take(lines, DESC_WINDOW),
                      LAMBDA ln : Len(ln) >= MIN_DESC_LINE_LEN)
  IN IF ok = <<>> THEN <<>> ELSE Head(ok)

\* the description loop
DescriptionLine(lines, co) ==
  LET ok == SelectSeq(Take(lines, DESC_WINDOW),
                      LAMBDA ln : /\ ~(co # <<>> /\ ln = co)
                                  /\ Len(ln) >= MIN_DESC_LINE_LEN)
  IN IF ok = <<>> THEN <<>> ELSE Head(ok)

\* desc[:80].strip()
TruncDescA(d) == Strip(Take(d, DESC_CUT))

\* from "if not company and not desc" to the return
ComposeA(base, co, d) ==
  IF co = <<>> /\ d = <<>> THEN safe_filename(base) \o DotPdf
  ELSE LET c == Strip(Take(co, COMPANY_CUT))
           ds == TruncDescA(d)
           new_base == IF c # <<>> /\ ds # <<>> THEN c \o <<" ", "-", " ">> \o ds
                       ELSE IF c # <<>> THEN c ELSE ds
       IN safe_filename(new_base) \o DotPdf

\* propose_new_name(pdf_path), where d is the document at pdf_path and name
\* is os.path.basename(pdf_path)
propose_new_name(d, name) ==
  LET base == SplitextRoot(name)
      r1 == extract_text_from_pdf(d, 2)
      ocr == ~r1.exc /\ NeedOcrA(r1.ret)
      r2 == ocr_first_pages(d, 1)
      t == IF ocr THEN r2.ret ELSE r1.ret
      lines == RetainedLines(t)
      co == IF t = <<>> THEN <<>> ELSE CompanyLine(lines)
      dl == IF t = <<>> THEN <<>> ELSE DescriptionLine(lines, co)
      exc == r1.exc \/ (ocr /\ r2.exc)
  IN [calls |-> IF ocr THEN <<[fn |-> "extract"] @@ r1, [fn |-> "ocr"] @@ r2>>
                ELSE <<[fn |-> "extract"] @@ r1>>,
      text |-> t,
      company |-> co,
      descLine |-> dl,
      desc |-> TruncDescA(dl),
      exc |-> exc,
      leaked |-> r1.leaked + (IF ocr THEN r2.leaked ELSE 0),
      name |-> IF exc THEN <<>>
               ELSE IF t = <<>> THEN safe_filename(base) \o DotPdf
               ELSE ComposeA(base, co, dl)]

----------------------------------------------------------------------------
(* Variant B: src/pdf_renamer_gui.py *)

COMPANY_SHORT_MAP ==
  << [k |-> <<"A","Q"," ","P","A","C","K"," ","(","M",")"," ","S","D","N"," ","B","H","D">>,
      v |-> <<"A","Q","P">>],
     [k |-> <<"A","Q"," ","P","A","C","K"," ","(","P","E","N","A","N","G",")"," ","S","D","N"," ","B","H","D">>,
      v |-> <<"A","Q","P","P">>],
     [k |-> <<"T","E","N","A","G","A"," ","N","A","S","I","O","N","A","L">>,
      v |-> <<"T","N","B">>],
     [k |-> <<"M","A","X","I","S">>,
      v |-> <<"M","A","X","I","S">>] >>

MAX_COMPANY_LEN == 20
MAX_DESC_LEN == 60
OCR_MIN_TEXT == 50
MIN_DESC_LEN_B == 8
MAX_PAGES_B == 2

clean(s) ==
  LET u == UpperStr(s)
      \* re.sub(r"[\\/:*?\"<>|]+", " ", s)
      mark == [i \in 1..Len(u) |->
                 IF u[i] \in Reserved
                 THEN (IF i > 1 /\ u[i-1] \in Reserved THEN "drop" ELSE " ")
                 ELSE u[i]]
      subbed == SelectSeq(mark, LAMBDA c : c # "drop")
  IN Strip(CollapseWs(subbed))

extract_text(d) ==
  LET n == PagesToRead(d, MAX_PAGES_B)
      body ==
        IF ~d.opens THEN Outcome(<<>>, TRUE, TRUE, 0)
        ELSE IF DirectFails(d, n) THEN Outcome(<<>>, TRUE, TRUE, 1)
        ELSE Outcome(Strip(Join([i \in 1..n |-> d.pages[i].txt], <<>>)),
                     FALSE, FALSE, 0)
  IN CatchAll(body)

extract_ocr(d) ==
  LET n == PagesToRead(d, MAX_PAGES_B)
      body ==
        IF ~d.opens THEN Outcome(<<>>, TRUE, TRUE, 0)
        ELSE IF OcrFails(d, n) THEN Outcome(<<>>, TRUE, TRUE, 1)
        ELSE Outcome(Strip(Join([i \in 1..n |-> d.pages[i].ocr], <<>>)),
                     FALSE, FALSE, 0)
  IN CatchAll(body)

IsUpperAZ(ch) == ch \in UpperSet

guess_company(t) ==
  LET text_u == clean(t)
      n == Len(text_u)
      hits == SelectSeq(COMPANY_SHORT_MAP, LAMBDA e : Contains(text_u, e.k))
      \* re.findall(r"[A-Z]{3,}", text_u): where the first run of three starts
      at3 == SelectSeq([i \in 1..(n - 2) |->
                          IF /\ IsUpperAZ(text_u[i])
                             /\ IsUpperAZ(text_u[i+1])
                             /\ IsUpperAZ(text_u[i+2])
                          THEN i ELSE 0],
                       LAMBDA v : v > 0)
      rest == SubSeq(text_u, Head(at3), n)
  IN IF hits # <<>> THEN Head(hits).v
     ELSE IF at3 # <<>> THEN SubSeq(rest, 1, LeadIn(rest, UpperSet))
     ELSE <<"U","N","K","N","O","W","N">>

\* lines = [l.strip() for l in text.splitlines() if len(l.strip()) > 8]
DescLinesB(t) ==
  LET raw == SplitLines(t)
      stripped == [i \in 1..Len(raw) |-> Strip(raw[i])]
  IN SelectSeq(stripped, LAMBDA ln : Len(ln) > MIN_DESC_LEN_B)

\* s[:MAX_DESC_LEN].rsplit(" ", 1)[0]
RsplitCut(s) ==
  LET w == Take(s, MAX_DESC_LEN)
      tail == TrailNotIn(w, {" "})
  IN IF tail = Len(w) THEN w ELSE SubSeq(w, 1, Len(w) - tail - 1)

guess_desc(t) ==
  LET lines == DescLinesB(t)
      s == clean(lines[1])
  IN IF lines = <<>> THEN <<"D","O","C","U","M","E","N","T">>
     ELSE IF Len(s) > MAX_DESC_LEN THEN RsplitCut(s) ELSE s

\* if len(text) < 50:
NeedOcrB(t) == Len(t) < OCR_MIN_TEXT

\* the body of the scan loop for one listed file: d is the document there
ScanFile(d) ==
  LET r1 == extract_text(d)
      ocr == ~r1.exc /\ NeedOcrB(r1.ret)
      r2 == extract_ocr(d)
      t == IF ocr THEN r2.ret ELSE r1.ret
      exc == r1.exc \/ (ocr /\ r2.exc)
      co == Take(guess_company(t), MAX_COMPANY_LEN)
      lines == DescLinesB(t)
      ds == guess_desc(t)
  IN [calls |-> IF ocr THEN <<[fn |-> "extract"] @@ r1, [fn |-> "ocr"] @@ r2>>
                ELSE <<[fn |-> "extract"] @@ r1>>,
      text |-> t,
      company |-> co,
      descLine |-> IF lines = <<>> THEN <<>> ELSE clean(lines[1]),
      desc |-> ds,
      exc |-> exc,
      leaked |-> r1.leaked + (IF ocr THEN r2.leaked ELSE 0),
      name |-> IF exc THEN <<>>
               ELSE co \o <<" ", "-", " ">> \o ds \o DotPdf]

----------------------------------------------------------------------------
(* Inputs of the pipeline *)

\* s * n
Rep(s, n) == [i \in 1..(n * Len(s)) |-> s[((i - 1) % Len(s)) + 1]]

\* qualifies as company: 7 letters, no digit
LineCompany == <<"A","c","m","e"," ","L","t","d">>
\* digits and punctuation only
LineDate == <<"2","0","2","4","-","0","3","-","1","5"," ","0","0","1","2","3","4","5","6">>
\* 6 letters and 6 digits
LineHalfDigits == <<"a","b","c","d","e","f","1","2","3","4","5","6">>
\* retained, shorter than 6, with a reserved character
LineShort == <<"a","b","/","d","e">>
\* shorter than 3: not retained
LineTiny == <<"a","b">>
\* a COMPANY_SHORT_MAP key, reserved characters, whitespace to trim
LineTenaga == <<" ","T","e","n","a","g","a"," "," ","N","a","s","i","o","n","a","l",":"," ","<","B","i","l","l",">","\t">>
\* 200 characters, words of 6 letters: the cuts at 60 and at 80 fall inside a word
LineLong == Rep(<<"a","b","c","d","e","f"," ">>, 28) \o <<"a","b","c","d">>
\* 90 characters without a space
LineNoSpace == Rep(<<"Q">>, 90)
\* retained, neither company nor description
LineFiller == <<"1","2","3">>
\* what OCR recognises on a scanned page; tesseract ends a page with a form feed
TextScanned == <<"S","c","a","n","n","e","d"," ","I","n","v","o","i","c","e"," ","4","2","\n","T","o","t","a","l"," ","d","u","e","\n","\f">>
\* two pages of a text set apart by a form feed, a unit separator in the second
TextFormFeed == <<"A","c","m","e"," ","L","t","d","\f","I","n","v","o","i","c","e","","2","0","2","4">>

LinePool == {LineCompany, LineDate, LineHalfDigits, LineShort, LineTiny,
             LineTenaga, LineLong, LineNoSpace}

\* the most lines of LinePool in a text
MaxBody == 2
\* the most pages of a document with failing pages
MaxPages == 3

\* filler lines put before the body, to reach the ends of the two windows
PadCounts == {0, COMPANY_WINDOW - 1, COMPANY_WINDOW, DESC_WINDOW - 1, DESC_WINDOW}

Bodies == UNION {[1..n -> LinePool] : n \in 0..MaxBody}

TextOf(pad, body) ==
  Rep(LineFiller \o <<"\n">>, pad) \o Join(body, <<"\n">>)

Texts == {TextOf(pad, body) : pad \in PadCounts, body \in Bodies}
           \cup {Rep(<<"x">>, OCR_MIN_TEXT - 1), Rep(<<"x">>, OCR_MIN_TEXT)}
           \cup {TextFormFeed}

GoodPage(txt, ocr) ==
  [loads |-> TRUE, txt |-> txt, renders |-> TRUE, recog |-> TRUE, ocr |-> ocr]

\* one-page documents that fitz and tesseract read without a failure
ReadableDocs ==
  {[opens |-> TRUE, pages |-> <<GoodPage(t, TextScanned)>>] : t \in Texts}

\* pages of the documents with failures: a scanned page, an empty page, a text page, a blank
\* page (of which OCR returns the form feed alone), and pages on which load_page, get_pixmap or image_to_string raises
PageKinds ==
  { GoodPage(<<>>, TextScanned),
    GoodPage(<<>>, <<>>),
    GoodPage(LineCompany, <<>>),
    GoodPage(<<" ", "\n">>, <<"\f">>),
    [loads |-> FALSE, txt |-> <<>>, renders |-> FALSE, recog |-> FALSE, ocr |-> <<>>],
    [loads |-> TRUE, txt |-> <<>>, renders |-> FALSE, recog |-> FALSE, ocr |-> <<>>],
    [loads |-> TRUE, txt |-> <<>>, renders |-> TRUE, recog |-> FALSE, ocr |-> <<>>] }

\* a missing or corrupt file, a 0-page document, documents of up to MaxPages pages
FailingDocs ==
  {NoFile} \cup
  {[opens |-> TRUE, pages |-> ps] :
     ps \in UNION {[1..n -> PageKinds] : n \in 0..MaxPages}}

Docs == ReadableDocs \cup FailingDocs

NameInvoice == <<"I","n","v","o","i","c","e","1","2","3",".","p","d","f">>
NameReserved == <<"a",":","b"," "," ","c","?",".","P","D","F">>
NameDotted == <<".","p","d","f">>
FileNames == {NameInvoice, NameReserved, NameDotted}

EmptyPass == [log |-> <<>>, nBefore |-> 0, nAfter |-> 0]

----------------------------------------------------------------------------
(* The pipeline on one document *)

Init ==
  /\ doc \in Docs
  /\ fname \in FileNames
  /\ variant = "none"
  /\ calls = <<>>
  /\ text = <<>>
  /\ company = <<>>
  /\ descLine = <<>>
  /\ desc = <<>>
  /\ proposed = <<>>
  /\ raised = FALSE
  /\ openHandles = 0
  /\ fs = {}
  /\ folder = ""
  /\ selected_files = <<>>
  /\ rows = <<>>
  /\ pass = EmptyPass

Record(v, r) ==
  /\ variant' = v
  /\ calls' = r.calls
  /\ text' = r.text
  /\ company' = r.company
  /\ descLine' = r.descLine
  /\ desc' = r.desc
  /\ proposed' = r.name
  /\ raised' = r.exc
  /\ openHandles' = openHandles + r.leaked
  /\ UNCHANGED <<doc, fname>>
  /\ UNCHANGED appVars

\* variant A: new_name = propose_new_name(pdf_path)
ProposeNewName ==
  /\ variant = "none"
  /\ Record("A", propose_new_name(doc, fname))

\* variant B: the body of the loop of App.scan for the file
ScanOneFile ==
  /\ variant = "none"
  /\ Record("B", ScanFile(doc))

Next == ProposeNewName \/ ScanOneFile

Spec == Init /\ [][Next]_vars

----------------------------------------------------------------------------
(* Properties of the pipeline *)

SetMin(S) == CHOOSE x \in S : \A y \in S : x <= y
IsPrefix(p, s) == Len(p) <= Len(s) /\ \A i \in 1..Len(p) : p[i] = s[i]
Ran == variant \in {"A", "B"}
SanitizedBase == safe_filename(SplitextRoot(fname)) \o DotPdf

\* C1: in both variants the proposed file name is a non-empty string that
\* ends with ".pdf" and holds none of the characters \ / : * ? " < > |
C1_SafeName ==
  Ran => /\ proposed # <<>>
         /\ EndsWith(proposed, <<".", "p", "d", "f">>)
         /\ \A i \in 1..Len(proposed) :
              proposed[i] \notin {"\\", "/", ":", "*", "?", "\"", "<", ">", "|"}

\* C1 happens: a description line with a reserved character went into a name
C1_Witness ==
  /\ variant = "A"
  /\ \E i \in 1..Len(descLine) : descLine[i] \in Reserved
  /\ \E i \in 1..Len(proposed) : proposed[i] = "-"
  /\ fname = NameReserved

\* C2 as stated: in both variants, when the text is empty, or is not empty
\* and yields neither a company nor a description, the proposed name is the
\* sanitized base name followed by ".pdf"
C2_Original ==
  /\ (Ran /\ text = <<>>) => proposed = SanitizedBase
  /\ (variant = "A" /\ company = <<>> /\ descLine = <<>>) => proposed = SanitizedBase

\* C3: no acquisition call raises to its caller, each returns the empty
\* string when a failure happened inside it, and a name is proposed
C3_NeverRaises ==
  Ran => /\ ~raised
         /\ proposed # <<>>
         /\ \A i \in 1..Len(calls) :
              /\ ~calls[i].exc
              /\ calls[i].ret \in Seq(STRING)
              /\ calls[i].failed => calls[i].ret = <<>>

\* C3 happens: the document opened, the direct extraction and the OCR both
\* failed on a page
C3_Witness ==
  /\ Ran
  /\ doc.opens
  /\ Len(calls) = 2
  /\ calls[1].failed
  /\ calls[2].failed

OcrInvoked == \E i \in 1..Len(calls) : calls[i].fn = "ocr"
CallOrderOk ==
  /\ Len(calls) \in {1, 2}
  /\ calls[1].fn = "extract"
  /\ Len(calls) = 2 => calls[2].fn = "ocr"

\* C4 as stated: in both variants direct extraction comes first and OCR is
\* invoked, once, exactly when the direct text is shorter than 50 characters
C4_Original ==
  Ran => /\ CallOrderOk
         /\ OcrInvoked <=> Len(calls[1].ret) < 50

\* C4 as amended: direct extraction comes first and OCR is invoked at most
\* once; App.scan invokes it exactly when the direct text is shorter than 50
\* characters, propose_new_name exactly when the direct text is empty
C4_OcrFallback ==
  Ran => /\ CallOrderOk
         /\ variant = "B" => (OcrInvoked <=> Len(calls[1].ret) < 50)
         /\ variant = "A" => (OcrInvoked <=> calls[1].ret = <<>>)

\* C4 happens: propose_new_name got a direct text of 1 to 49 characters
C4_Witness ==
  /\ variant = "A"
  /\ Len(calls[1].ret) \in 1..49
  /\ ~OcrInvoked

CompanyOk(ln) == CountAlpha(ln) >= 6 /\ CountAlpha(ln) > CountDigit(ln)

\* C5: the company of propose_new_name is the first of the first 30 retained
\* lines that has at least 6 letters and more letters than digits, and is
\* empty when there is none; a line with as many digits as letters is never it
C5_Company ==
  variant = "A" =>
    LET L == RetainedLines(text)
        I == {i \in 1..Min2(30, Len(L)) : CompanyOk(L[i])}
    IN /\ company = IF I = {} THEN <<>> ELSE L[SetMin(I)]
       /\ company # <<>> => CountDigit(company) < CountAlpha(company)

\* C5 happens: the company was found after a line of digits and a line with
\* as many digits as letters
C5_Witness ==
  /\ variant = "A"
  /\ company = LineCompany
  /\ RetainedLines(text)[1] \in {LineDate, LineHalfDigits}

HasSpaceIn(s, n) == \E i \in 1..Min2(n, Len(s)) : s[i] = " "
AtWordBoundary(d, s) ==
  /\ IsPrefix(d, s)
  /\ d # <<>> => d[Len(d)] \notin WS
  /\ Len(d) < Len(s) => s[Len(d) + 1] \in WS

\* C6 as stated: a description line longer than the maximum (80 in
\* propose_new_name, 60 in guess_desc) is cut to at most the maximum and, when
\* the window holds a space, ends at a word boundary
C6_Original ==
  /\ (variant = "A" /\ Len(descLine) > 80) =>
       /\ Len(desc) <= 80
       /\ HasSpaceIn(descLine, 80) => AtWordBoundary(desc, descLine)
  /\ (variant = "B" /\ Len(descLine) > 60) =>
       /\ Len(desc) <= 60
       /\ HasSpaceIn(descLine, 60) => AtWordBoundary(desc, descLine)

\* C8 as stated: every document handle opened by an acquisition call is
\* released when the call returns
C8_HandlesReleased == openHandles = 0

\* the index of the line chosen as company, 0 when there is none
CompanyIndex(L) ==
  LET I == {i \in 1..Min2(30, Len(L)) : CompanyOk(L[i])}
  IN IF I = {} THEN 0 ELSE SetMin(I)

\* C9 as stated: the description is the first of the first 60 retained lines
\* of length >= 6, the one line chosen as company skipped; a later line with
\* the content of the company line is eligible
C9_Original ==
  variant = "A" =>
    LET L == RetainedLines(text)
        c == CompanyIndex(L)
        I == {i \in 1..Min2(60, Len(L)) : i # c /\ Len(L[i]) >= 6}
    IN descLine = IF I = {} THEN <<>> ELSE L[SetMin(I)]

\* C9 as amended: the description is the first of the first 60 retained lines
\* of length >= 6 whose content differs from the company; every line with
\* the content of the company is skipped, a line before the company line is
\* eligible
C9_Description ==
  variant = "A" =>
    LET L == RetainedLines(text)
        I == {i \in 1..Min2(60, Len(L)) : L[i] # company /\ Len(L[i]) >= 6}
    IN descLine = IF I = {} THEN <<>> ELSE L[SetMin(I)]

\* C9 happens: the company line occurs twice and no other line can describe
C9_Witness ==
  /\ variant = "A"
  /\ company # <<>>
  /\ descLine = <<>>
  /\ LET L == RetainedLines(text)
     IN \E i, j \in 1..Len(L) : i < j /\ L[i] = company /\ L[j] = company

----------------------------------------------------------------------------
(* The file system and the two applications *)

\* the directories of the file system
Dirs == {"d1", "d2"}

\* os.path.join(folder, name); os.path.dirname and os.path.basename are
\* the fields dir and name
PathOf(dir, name) == [dir |-> dir, name |-> name]

\* os.path.exists(p)
Exists(f, p) == \E x \in f : x.dir = p.dir /\ x.name = p.name

\* the document at p, NoFile when there is no file
DocAt(f, p) ==
  IF Exists(f, p)
  THEN (CHOOSE x \in f : x.dir = p.dir /\ x.name = p.name).doc
  ELSE NoFile

\* os.rename(src, dst): fails when src is missing, replaces a file at dst
os_rename(f, src, dst) ==
  IF ~Exists(f, src) THEN [fs |-> f, err |-> TRUE]
  ELSE IF src = dst THEN [fs |-> f, err |-> FALSE]
  ELSE [fs |-> {x \in f : PathOf(x.dir, x.name) \notin {src, dst}}
                 \cup {[dir |-> dst.dir, name |-> dst.name, doc |-> DocAt(f, src)]},
        err |-> FALSE]

\* name.lower().endswith(".pdf")
IsPdfName(name) == EndsWith(LowerStr(name), DotPdf)

\* the .pdf names among os.listdir(folder)
PdfNames(f, d) == {x.name : x \in {y \in f : y.dir = d /\ IsPdfName(y.name)}}

\* every order of a finite set
Orders(S) ==
  {p \in [1..Cardinality(S) -> S] : \A i, j \in 1..Cardinality(S) : p[i] = p[j] => i = j}

\* pdfs.sort() on paths of one folder
RECURSIVE SortedNames(_)
SortedNames(S) ==
  IF S = {} THEN <<>>
  ELSE LET m == CHOOSE x \in S : \A y \in S \ {x} : StrLess(x, y)
       IN <<m>> \o SortedNames(S \ {m})

\* one step of a rename pass: the file system after it and what it did
Step(f, f2, src, new, dst, outcome) ==
  [fs |-> f2,
   entry |-> [src |-> src, new |-> new, dst |-> dst, existed |-> Exists(f, dst),
              outcome |-> outcome, changed |-> f2 # f]]

----------------------------------------------------------------------------
(* Variant A: App of src/src/pdf_renamer_gui.py *)

get_input_pdfs(f, fold, sel) ==
  IF sel # <<>> THEN sel
  ELSE IF fold \notin Dirs THEN <<>>
  ELSE LET names == SortedNames(PdfNames(f, fold))
       IN [i \in 1..Len(names) |-> PathOf(fold, names[i])]

\* the rows of the table after on_scan
on_scan(f, fold, sel) ==
  LET pdfs == get_input_pdfs(f, fold, sel)
  IN [i \in 1..Len(pdfs) |->
        [path |-> pdfs[i],
         original |-> pdfs[i].name,
         new |-> propose_new_name(DocAt(f, pdfs[i]), pdfs[i].name).name]]

RenameRowANoExistsCheck(f, row) ==
  LET new_path == PathOf(row.path.dir, row.new)
      r == os_rename(f, row.path, new_path)
  IN IF row.path = new_path
     THEN Step(f, f, row.path, row.new, new_path, "skipped")
     ELSE IF r.err THEN Step(f, f, row.path, row.new, new_path, "error")
     ELSE Step(f, r.fs, row.path, row.new, new_path, "renamed")

\* the body of the loop of on_rename
RenameRowA(f, row) ==
  LET new_path == PathOf(row.path.dir, row.new)
      r == os_rename(f, row.path, new_path)
  IN IF row.path = new_path
     THEN Step(f, f, row.path, row.new, new_path, "skipped")
     ELSE IF Exists(f, new_path)
     THEN Step(f, f, row.path, row.new, new_path, "skipped")
     ELSE IF r.err THEN Step(f, f, row.path, row.new, new_path, "error")
     ELSE Step(f, r.fs, row.path, row.new, new_path, "renamed")

\* for row_id in rows: the file system and the log after the rows from i on
RECURSIVE RenameLoopA(_, _, _, _)
RenameLoopA(f, rs, i, log) ==
  IF i > Len(rs) THEN [fs |-> f, log |-> log, raised |-> FALSE]
  ELSE LET st == RenameRowA(f, rs[i])
       IN RenameLoopA(st.fs, rs, i + 1, Append(log, st.entry))

\* "Browse Folder" with the folder d chosen
OnBrowseFolder(d) ==
  /\ variant = "A"
  /\ folder' = d
  /\ selected_files' = <<>>
  /\ rows' = on_scan(fs, d, <<>>)
  /\ UNCHANGED <<fs, pass, variant>>
  /\ UNCHANGED pipeVars

\* "Select PDFs" with the files paths chosen, all of one directory
OnSelectPdfs(paths) ==
  /\ variant = "A"
  /\ paths # <<>>
  /\ selected_files' = paths
  /\ rows' = on_scan(fs, folder, paths)
  /\ UNCHANGED <<fs, folder, pass, variant>>
  /\ UNCHANGED pipeVars

\* "Rename" with rows in the table
OnRename ==
  /\ variant = "A"
  /\ rows # <<>>
  /\ LET done == RenameLoopA(fs, rows, 1, <<>>)
     IN /\ fs' = done.fs
        /\ pass' = [log |-> done.log, nBefore |-> Cardinality(fs),
                    nAfter |-> Cardinality(done.fs)]
        /\ rows' = on_scan(done.fs, folder, selected_files)
  /\ UNCHANGED <<folder, selected_files, variant>>
  /\ UNCHANGED pipeVars

----------------------------------------------------------------------------
(* Variant B: App of src/pdf_renamer_gui.py *)

\* the rows after scan, os.listdir giving the .pdf names in the order names
ScanRows(f, fold, names) ==
  [i \in 1..Len(names) |->
     [path |-> PathOf(fold, names[i]),
      original |-> names[i],
      new |-> ScanFile(DocAt(f, PathOf(fold, names[i]))).name]]

\* the body of the loop of rename
RenameRowB(f, fold, row) ==
  LET new_path == PathOf(fold, row.new)
      r == os_rename(f, row.path, new_path)
  IN IF Exists(f, new_path)
     THEN Step(f, f, row.path, row.new, new_path, "skipped")
     ELSE IF r.err THEN Step(f, f, row.path, row.new, new_path, "error")
     ELSE Step(f, r.fs, row.path, row.new, new_path, "renamed")

\* for old, new in self.rows: an exception of os.rename ends the loop
RECURSIVE RenameLoopB(_, _, _, _, _)
RenameLoopB(f, fold, rs, i, log) ==
  IF i > Len(rs) THEN [fs |-> f, log |-> log, raised |-> FALSE]
  ELSE LET st == RenameRowB(f, fold, rs[i])
       IN IF st.entry.outcome = "error"
          THEN [fs |-> f, log |-> Append(log, st.entry), raised |-> TRUE]
          ELSE RenameLoopB(st.fs, fold, rs, i + 1, Append(log, st.entry))

\* "Browse" with the folder d chosen
Pick(d) ==
  /\ variant = "B"
  /\ folder' = d
  /\ UNCHANGED <<fs, selected_files, rows, pass, variant>>
  /\ UNCHANGED pipeVars

\* "Scan"
Scan ==
  /\ variant = "B"
  /\ IF folder \notin Dirs
     THEN rows' = <<>>
     ELSE \E names \in Orders(PdfNames(fs, folder)) :
            rows' = ScanRows(fs, folder, names)
  /\ UNCHANGED <<fs, folder, selected_files, pass, variant>>
  /\ UNCHANGED pipeVars

\* "Rename" with rows to rename, the question answered by confirm
Rename(confirm) ==
  /\ variant = "B"
  /\ rows # <<>>
  /\ IF ~confirm
     THEN UNCHANGED <<fs, rows, pass>>
     ELSE LET done == RenameLoopB(fs, folder, rows, 1, <<>>)
          IN /\ fs' = done.fs
             /\ pass' = [log |-> done.log, nBefore |-> Cardinality(fs),
                         nAfter |-> Cardinality(done.fs)]
             /\ IF done.raised THEN rows' = rows
                ELSE IF folder \notin Dirs THEN rows' = <<>>
                ELSE \E names \in Orders(PdfNames(done.fs, folder)) :
                       rows' = ScanRows(done.fs, folder, names)
  /\ UNCHANGED <<folder, selected_files, variant>>
  /\ UNCHANGED pipeVars

----------------------------------------------------------------------------
(* The applications on a file system *)

TextAcme == <<"A","C","M","E","C","O","R","P","\n","I","N","V","O","I","C","E"," ","4","2">>
TextBeta == <<"B","E","T","A","C","O","R","P","\n","R","E","C","E","I","P","T"," ","7","7">>
\* two documents on which OCR finds the text of the text layer (App.scan of
\* src/pdf_renamer_gui.py reads these short texts by OCR): both variants
\* propose NameAcme for the first and NameBeta for the second
DocAcme == [opens |-> TRUE, pages |-> <<GoodPage(TextAcme, TextAcme)>>]
DocBeta == [opens |-> TRUE, pages |-> <<GoodPage(TextBeta, TextBeta)>>]
AppDocs == {DocAcme, DocBeta}

NameA == <<"a",".","p","d","f">>
NameB == <<"b",".","P","D","F">>
\* the name both variants propose for DocAcme
NameAcme == <<"A","C","M","E","C","O","R","P"," ","-"," ","I","N","V","O","I","C","E"," ","4","2",".","p","d","f">>
AppNames == {NameA, NameB, NameAcme}

\* the name both variants propose for DocBeta
NameBeta == <<"B","E","T","A","C","O","R","P"," ","-"," ","R","E","C","E","I","P","T"," ","7","7",".","p","d","f">>

\* the most files of the initial file system
MaxFiles == 3

\* the files of the initial file system: any document under any name in d1
\* (a file named NameAcme that holds DocBeta has a proposal other than its
\* name, one that holds DocAcme has its own name as proposal), and in d2 at
\* most a file that has the name proposed for it
CandidateFiles ==
  {x \in [dir : Dirs, name : AppNames, doc : AppDocs] :
     x.dir = "d1" \/ (x.name = NameAcme /\ x.doc = DocAcme)}

UniquePaths(f) ==
  \A x, y \in f : (x.dir = y.dir /\ x.name = y.name) => x = y

FileSystems ==
  {f \in SUBSET CandidateFiles :
     Cardinality(f) \in 1..MaxFiles /\ UniquePaths(f)}

InitApp ==
  /\ variant \in {"A", "B"}
  /\ fs \in FileSystems
  /\ folder = ""
  /\ selected_files = <<>>
  /\ rows = <<>>
  /\ pass = EmptyPass
  /\ doc = NoFile
  /\ fname = <<>>
  /\ calls = <<>>
  /\ text = <<>>
  /\ company = <<>>
  /\ descLine = <<>>
  /\ desc = <<>>
  /\ proposed = <<>>
  /\ raised = FALSE
  /\ openHandles = 0

\* the files a file dialog can return: some files of one directory
Selections ==
  UNION {Orders({PathOf(x.dir, x.name) : x \in S}) :
           S \in {T \in SUBSET fs : T # {} /\ \A x, y \in T : x.dir = y.dir}}

NextApp ==
  \/ \E d \in Dirs : OnBrowseFolder(d)
  \/ \E paths \in Selections : OnSelectPdfs(paths)
  \/ OnRename
  \/ \E d \in Dirs : Pick(d)
  \/ Scan
  \/ \E confirm \in BOOLEAN : Rename(confirm)

SpecApp == InitApp /\ [][NextApp]_vars

----------------------------------------------------------------------------
(* Properties of the rename pass *)

Log == pass.log

\* C7 as stated: a rename pass renames no file onto a path that exists at
\* that moment or that is its own path: such a row is skipped and changes
\* nothing; the pass keeps the number of files; of the rows that share a
\* proposed name at most the first is renamed
C7_Original ==
  /\ \A i \in 1..Len(Log) :
       /\ (Log[i].existed \/ Log[i].dst = Log[i].src) =>
            (Log[i].outcome = "skipped" /\ ~Log[i].changed)
       /\ Log[i].outcome = "renamed" =>
            (~Log[i].existed /\ Log[i].dst # Log[i].src)
  /\ pass.nAfter = pass.nBefore
  /\ \A i, j \in 1..Len(Log) :
       (i < j /\ Log[i].new = Log[j].new) => Log[j].outcome # "renamed"

\* C7 as amended: the same, but of the rows that share a proposed name at
\* most one is renamed, the first whose target does not exist when the pass
\* reaches it: every earlier one was skipped on a target that existed then,
\* and every later one is skipped
C7_NoOverwrite ==
  /\ \A i \in 1..Len(Log) :
       /\ (Log[i].existed \/ Log[i].dst = Log[i].src) =>
            (Log[i].outcome = "skipped" /\ ~Log[i].changed)
       /\ Log[i].outcome = "renamed" =>
            (~Log[i].existed /\ Log[i].dst # Log[i].src)
  /\ pass.nAfter = pass.nBefore
  /\ \A i, j \in 1..Len(Log) :
       (i < j /\ Log[i].new = Log[j].new /\ Log[j].outcome = "renamed") =>
         (Log[i].outcome = "skipped" /\ Log[i].existed)
  /\ \A i, j \in 1..Len(Log) :
       (i < j /\ Log[i].new = Log[j].new /\ Log[i].outcome = "renamed") =>
         (Log[j].outcome = "skipped" /\ Log[j].existed)

\* C7 happens: of three rows of a pass, the first is skipped because a file
\* has its proposed name, the second renames that file away, and the third,
\* which shares the proposed name of the first, is renamed onto the name
C7_Witness ==
  \E i, k, j \in 1..Len(Log) :
    /\ i < k /\ k < j
    /\ Log[i].new = NameAcme /\ Log[j].new = NameAcme
    /\ Log[i].outcome = "skipped" /\ Log[i].existed
    /\ Log[k].src = Log[i].dst /\ Log[k].new = NameBeta
    /\ Log[k].outcome = "renamed"
    /\ Log[j].outcome = "renamed" /\ Log[j].dst = Log[i].dst

\* C10 as stated: the target of every rename performed lies in the directory
\* of the source path recorded for the row when it was scanned
C10_SameDirectory ==
  \A i \in 1..Len(Log) :
    Log[i].outcome = "renamed" => Log[i].dst.dir = Log[i].src.dir

====
